---- MODULE Spec2Model ----
(***************************************************************************)
(* A model of bytebuffer's Buffer (src/src/lib.rs): a growable byte store  *)
(* with a read cursor and a write cursor.                                   *)
(*                                                                          *)
(*   | prependable bytes |  readable bytes  |  writable bytes  |            *)
(*   0      <=      read_index   <=   write_index    <=     data.len()      *)
(*                                                                          *)
(* Every method of Buffer is an operator from a buffer value (and the       *)
(* call's arguments) to a result: the buffer the call leaves behind, the    *)
(* value it returns, and how it ended.  An action is one call on the        *)
(* buffer the state holds.  data is a Vec<u8>; offset i of the code is      *)
(* element i + 1 of the sequence.                                           *)
(***************************************************************************)
EXTENDS Integers, Sequences, FiniteSets, TLC

VARIABLES
    read_index,     \* Buffer.read_index
    write_index,    \* Buffer.write_index
    data,           \* Buffer.data
    pre,            \* the buffer as it was when the last call was made
    call,           \* the last call: its name, argument, result and outcome
    calls           \* the number of calls made

vars == <<read_index, write_index, data, pre, call, calls>>

(***************************************************************************)
(* Constants of the program.                                                *)
(***************************************************************************)
PREPEND == 8
INITIAL == 1024

(***************************************************************************)
(* Bounds of the model.                                                     *)
(***************************************************************************)
\* Buffer::new(Some(sz)) is called with sz in 0..MaxInitial.
MaxInitial == 2
\* Length and count arguments run over 0..MaxArg.
MaxArg == 2
\* A run makes at most MaxCalls calls.
MaxCalls == 5

(***************************************************************************)
(* Values.                                                                  *)
(***************************************************************************)
Buffer(r, w, d) == [read_index |-> r, write_index |-> w, data |-> d]

\* Option<usize>
None == <<>>
Some(x) == <<x>>

\* The unit value () returned by a method without a result.
Unit == <<>>

\* A call that returned `ret`, leaving the buffer as b.
Ok(b, ret) == [buf |-> b, ret |-> ret, outcome |-> "ok"]
\* A call that panicked (a failed assert!, an index out of bounds, an
\* unwrap of Err), the buffer being b at that point.
Panic(b) == [buf |-> b, ret |-> Unit, outcome |-> "panic"]
\* A call that subtracts below zero in usize: "attempt to subtract with
\* overflow", a panic, in a build with overflow checks; without them the
\* value wraps around 2^64 and the call goes on with it, which the model
\* does not follow.
Overflow(b) == [buf |-> b, ret |-> Unit, outcome |-> "overflow"]
\* A call whose unsafe block reads or writes past the end of the Vec:
\* undefined behaviour, after which nothing is known.
Undefined(b) == [buf |-> b, ret |-> Unit, outcome |-> "undefined"]

\* vec![0u8; n]
Zeros(n) == [i \in 1..n |-> 0]

\* The n bytes of d from offset `from` on.
Slice(d, from, n) == [i \in 1..n |-> d[from + i]]

\* ptr::copy_nonoverlapping(&bytes[0], &mut d[at], bytes.len())
copy_nonoverlapping(d, at, bytes) ==
    [i \in 1..Len(d) |->
        IF at < i /\ i <= at + Len(bytes) THEN bytes[i - at] ELSE d[i]]

\* ptr::copy(&d[src], &mut d[dst], n): a memmove, the ranges may overlap.
copy(d, src, dst, n) ==
    [i \in 1..Len(d) |->
        IF dst < i /\ i <= dst + n THEN d[src + (i - dst)] ELSE d[i]]

\* Vec::resize(n, 0u8): truncates, or extends with zeros.
resize(d, n) == [i \in 1..n |-> IF i <= Len(d) THEN d[i] ELSE 0]

\* Whether d[i] is within bounds (the index panics otherwise).
InBounds(d, i) == 0 <= i /\ i < Len(d)

(***************************************************************************)
(* Construction and the region accessors.                                   *)
(***************************************************************************)
new(initial) ==
    LET size == IF initial = None THEN INITIAL ELSE initial[1]
    IN  Buffer(PREPEND, PREPEND, Zeros(PREPEND + size))

readable_bytes(b) == b.write_index - b.read_index

\* data.len() - write_index, where it does not underflow.
writable_bytes(b) == Len(b.data) - b.write_index

\* writable_bytes() underflows on b.
Underflow(b) == Len(b.data) < b.write_index

prependable_bytes(b) == b.read_index

(***************************************************************************)
(* Space management.                                                        *)
(***************************************************************************)
\* A make_space that never compacts: it resizes whatever the cursors are.
make_space_never_compacting(b, len) ==
    IF Underflow(b) THEN Overflow(b)
    ELSE Ok([b EXCEPT !.data = resize(b.data, b.write_index + len)], Unit)

\* A make_space that grows the storage by len bytes, wherever write_index is.
make_space_growing_by_len(b, len) ==
    IF Underflow(b) THEN Overflow(b)
    ELSE IF writable_bytes(b) + prependable_bytes(b) < PREPEND + len
    THEN Ok([b EXCEPT !.data = resize(b.data, Len(b.data) + len)], Unit)
    ELSE IF ~(PREPEND < b.read_index) THEN Panic(b)
    ELSE Ok(Buffer(PREPEND, PREPEND + readable_bytes(b),
                   copy(b.data, b.read_index, PREPEND, readable_bytes(b))), Unit)

\* A make_space that compacts whenever the writable and prependable bytes
\* together reach len, the margin not counted.
make_space_forgetting_margin(b, len) ==
    IF Underflow(b) THEN Overflow(b)
    ELSE IF writable_bytes(b) + prependable_bytes(b) < len
    THEN Ok([b EXCEPT !.data = resize(b.data, b.write_index + len)], Unit)
    ELSE IF ~(PREPEND < b.read_index) THEN Panic(b)
    ELSE Ok(Buffer(PREPEND, PREPEND + readable_bytes(b),
                   copy(b.data, b.read_index, PREPEND, readable_bytes(b))), Unit)

make_space(b, len) ==
    IF Underflow(b) THEN Overflow(b)
    ELSE IF writable_bytes(b) + prependable_bytes(b) < PREPEND + len
    THEN Ok([b EXCEPT !.data = resize(b.data, b.write_index + len)], Unit)
    ELSE IF ~(PREPEND < b.read_index) THEN Panic(b)
    ELSE IF ~InBounds(b.data, b.read_index) THEN Panic(b)
    ELSE IF ~InBounds(b.data, PREPEND) THEN Panic(b)
    ELSE LET readable == readable_bytes(b)
         IN  Ok(Buffer(PREPEND, PREPEND + readable,
                       copy(b.data, b.read_index, PREPEND, readable)), Unit)

ensure_writable_bytes(b, len) ==
    IF Underflow(b) THEN Overflow(b)
    ELSE LET m == IF writable_bytes(b) < len THEN make_space(b, len) ELSE Ok(b, Unit)
         IN  IF m.outcome # "ok" THEN m
             ELSE IF Underflow(m.buf) THEN Overflow(m.buf)
             ELSE IF ~(writable_bytes(m.buf) >= len) THEN Panic(m.buf)
             ELSE m

has_written(b, len) ==
    IF Underflow(b) THEN Overflow(b)
    ELSE IF ~(len <= writable_bytes(b)) THEN Panic(b)
    ELSE Ok([b EXCEPT !.write_index = b.write_index + len], Unit)

\* An unwrite that takes back what there is when asked for more.
unwrite_clamping(b, len) ==
    IF len <= readable_bytes(b)
    THEN Ok([b EXCEPT !.write_index = b.write_index - len], Unit)
    ELSE Ok([b EXCEPT !.write_index = b.read_index], Unit)

unwrite(b, len) ==
    IF ~(len <= readable_bytes(b)) THEN Panic(b)
    ELSE Ok([b EXCEPT !.write_index = b.write_index - len], Unit)

(***************************************************************************)
(* Appending and prepending.                                                *)
(***************************************************************************)
append_bytes(b, bytes) ==
    LET e == ensure_writable_bytes(b, Len(bytes))
    IN  IF e.outcome # "ok" THEN e
        ELSE IF Len(bytes) = 0 THEN Panic(e.buf)                     \* &bytes[0]
        ELSE IF ~InBounds(e.buf.data, e.buf.write_index) THEN Panic(e.buf)
        ELSE has_written(
                [e.buf EXCEPT !.data =
                    copy_nonoverlapping(e.buf.data, e.buf.write_index, bytes)],
                Len(bytes))

\* A String is its UTF-8 bytes; as_bytes() is a view of them.
append_string(b, str) == append_bytes(b, str)

prepend_bytes(b, bytes) ==
    IF ~(Len(bytes) <= prependable_bytes(b)) THEN Panic(b)
    ELSE LET b1 == [b EXCEPT !.read_index = b.read_index - Len(bytes)]
         IN  IF Len(bytes) = 0 THEN Panic(b1)                        \* &bytes[0]
             ELSE IF ~InBounds(b1.data, b1.read_index) THEN Panic(b1)
             ELSE IF ~(b1.read_index + Len(bytes) <= Len(b1.data))
                  THEN Undefined(b1)
             ELSE Ok([b1 EXCEPT !.data =
                        copy_nonoverlapping(b1.data, b1.read_index, bytes)], Unit)

(***************************************************************************)
(* Retrieval.                                                               *)
(***************************************************************************)
\* A retrieve_all that resets read_index alone.
retrieve_all_keeping_write_index(b) == Ok([b EXCEPT !.read_index = PREPEND], Unit)

retrieve_all(b) == Ok([b EXCEPT !.read_index = PREPEND, !.write_index = PREPEND], Unit)

retrieve(b, len) ==
    IF ~(len <= readable_bytes(b)) THEN Panic(b)
    ELSE IF len < readable_bytes(b)
         THEN Ok([b EXCEPT !.read_index = b.read_index + len], Unit)
         ELSE retrieve_all(b)

retrieve_until(b, end) ==
    IF ~(b.read_index <= end) THEN Panic(b)
    ELSE IF ~(end <= b.write_index) THEN Panic(b)
    ELSE retrieve(b, end - b.read_index)

\* peek(): the address of data[read_index]; the index is bounds-checked.
\* The k bytes a caller then copies from it, as a result.
peek(b, k) ==
    IF ~InBounds(b.data, b.read_index) THEN Panic(b)
    ELSE IF ~(b.read_index + k <= Len(b.data)) THEN Undefined(b)
    ELSE Ok(b, Slice(b.data, b.read_index, k))

(***************************************************************************)
(* Text.  String::from_utf8 accepts exactly the well-formed UTF-8 byte      *)
(* sequences (Unicode, table 3-7) and hands the same bytes back.            *)
(***************************************************************************)
Continuation(x) == 128 <= x /\ x <= 191

RECURSIVE Utf8Valid(_, _)
\* Whether bytes, from element i on, is a run of well-formed sequences.
Utf8Valid(bytes, i) ==
    LET n == Len(bytes)
        c == bytes[i]
        c1 == bytes[i + 1]
        c2 == bytes[i + 2]
        c3 == bytes[i + 3]
    IN  IF i > n THEN TRUE
        ELSE IF c <= 127 THEN Utf8Valid(bytes, i + 1)
        ELSE IF 194 <= c /\ c <= 223
             THEN i + 1 <= n /\ Continuation(c1) /\ Utf8Valid(bytes, i + 2)
        ELSE IF 224 <= c /\ c <= 239
             THEN /\ i + 2 <= n
                  /\ IF c = 224 THEN 160 <= c1 /\ c1 <= 191
                     ELSE IF c = 237 THEN 128 <= c1 /\ c1 <= 159
                     ELSE Continuation(c1)
                  /\ Continuation(c2)
                  /\ Utf8Valid(bytes, i + 3)
        ELSE IF 240 <= c /\ c <= 244
             THEN /\ i + 3 <= n
                  /\ IF c = 240 THEN 144 <= c1 /\ c1 <= 191
                     ELSE IF c = 244 THEN 128 <= c1 /\ c1 <= 143
                     ELSE Continuation(c1)
                  /\ Continuation(c2)
                  /\ Continuation(c3)
                  /\ Utf8Valid(bytes, i + 4)
        ELSE FALSE

\* Result<String, FromUtf8Error>: Some(the string) for Ok, None for Err.
from_utf8(bytes) == IF Utf8Valid(bytes, 1) THEN Some(bytes) ELSE None

retrieve_as_string(b, len) ==
    IF ~(len <= readable_bytes(b)) THEN Panic(b)
    ELSE LET p == peek(b, len)
         IN  IF p.outcome = "panic" THEN p
             ELSE IF len = 0 THEN Panic(b)                           \* &mut bytes[0]
             ELSE IF p.outcome # "ok" THEN p
             ELSE LET r == retrieve(b, len)
                      s == from_utf8(p.ret)
                  IN  IF r.outcome # "ok" THEN r
                      ELSE IF s = None THEN Panic(r.buf)             \* unwrap()
                      ELSE Ok(r.buf, s[1])

retrieve_all_as_string(b) == retrieve_as_string(b, readable_bytes(b))

(***************************************************************************)
(* Integers.  An i8, i16 or i32 is the integer it denotes; an i64 is a     *)
(* record of two 32-bit words: hi, the upper word as a signed integer, and  *)
(* lo, the lower word as a signed integer of the same 32 bits.  The value   *)
(* is hi * 2^32 + (lo mod 2^32).                                            *)
(***************************************************************************)
I64(hi, lo) == [hi |-> hi, lo |-> lo]

\* mem::size_of of the integer type of W bits.
size_of(W) == W \div 8

Reverse(s) == [i \in 1..Len(s) |-> s[Len(s) + 1 - i]]

\* The k bytes of the two's complement pattern of x (k <= 4), the least
\* significant byte first.
LeBytes(x, k) == [i \in 1..k |-> (x \div (256 ^ (i - 1))) % 256]

\* The signed integer whose two's complement pattern is bytes (at most 4),
\* the least significant byte first.
FromLeBytes(bytes) ==
    LET k == Len(bytes)
        top == IF bytes[k] >= 128 THEN bytes[k] - 256 ELSE bytes[k]
        low == IF k >= 2 THEN bytes[1] ELSE 0
        mid == IF k >= 3 THEN bytes[2] * 256 ELSE 0
        upp == IF k >= 4 THEN bytes[3] * 65536 ELSE 0
    IN  top * (256 ^ (k - 1)) + upp + mid + low

\* The bytes of an integer of W bits, the least significant byte first.
Pattern(x, W) ==
    IF W = 64 THEN LeBytes(x.lo, 4) \o LeBytes(x.hi, 4)
    ELSE LeBytes(x, size_of(W))

\* The integer of W bits with that pattern.
Value(bytes, W) ==
    IF W = 64
    THEN I64(FromLeBytes(SubSeq(bytes, 5, 8)), FromLeBytes(SubSeq(bytes, 1, 4)))
    ELSE FromLeBytes(bytes)

swap_bytes(x, W) == Value(Reverse(Pattern(x, W)), W)

\* x.to_be() and iW::from_be(x): the identity on a big-endian target (le
\* false), a byte swap on a little-endian one (le true).
\* A from_be that takes the bytes in the order of the target.
from_be_native(x, W, le) == x

to_be(x, W, le) == IF le THEN swap_bytes(x, W) ELSE x
from_be(x, W, le) == IF le THEN swap_bytes(x, W) ELSE x

\* mem::transmute::<iW, [u8; k]>: the integer's bytes in memory order.
transmute_bytes(x, W, le) ==
    IF le THEN Pattern(x, W) ELSE Reverse(Pattern(x, W))

\* mem::transmute::<[u8; k], iW>: the integer whose bytes in memory are these.
transmute_int(bytes, W, le) ==
    IF le THEN Value(bytes, W) ELSE Value(Reverse(bytes), W)

\* append_int8 transmutes x itself; the wider ones transmute x.to_be().
append_int(b, W, x, le) ==
    LET be == IF W = 8 THEN x ELSE to_be(x, W, le)
    IN  append_bytes(b, transmute_bytes(be, W, le))

prepend_int(b, W, x, le) ==
    LET be == IF W = 8 THEN x ELSE to_be(x, W, le)
    IN  prepend_bytes(b, transmute_bytes(be, W, le))

peek_int(b, W, le) ==
    IF ~(readable_bytes(b) >= size_of(W)) THEN Panic(b)
    ELSE LET p == peek(b, size_of(W))
         IN  IF p.outcome # "ok" THEN p
             ELSE Ok(b, from_be(transmute_int(p.ret, W, le), W, le))

retrieve_int(b, W) == retrieve(b, size_of(W))

read_int(b, W, le) ==
    LET p == peek_int(b, W, le)
        r == retrieve_int(b, W)
    IN  IF p.outcome # "ok" THEN p
        ELSE IF r.outcome # "ok" THEN r
        ELSE Ok(r.buf, p.ret)

(***************************************************************************)
(* Searching.  The scans index data with bounds checks and change nothing.  *)
(***************************************************************************)
CR == 13
LF == 10

RECURSIVE ScanCrlf(_, _, _)
\* The loop of do_find_crlf from i on: for i in start..end-1.
ScanCrlf(b, i, last) ==
    IF ~(i < last) THEN Ok(b, None)
    ELSE IF ~InBounds(b.data, i) THEN Panic(b)
    ELSE IF ~InBounds(b.data, i + 1) THEN Panic(b)
    ELSE IF b.data[i + 1] = CR /\ b.data[i + 2] = LF THEN Ok(b, Some(i))
    ELSE ScanCrlf(b, i + 1, last)

do_find_crlf(b, start, end) ==
    IF ~(start <= end) THEN Panic(b)
    ELSE IF end = 0 THEN Overflow(b)                                 \* end-1
    ELSE ScanCrlf(b, start, end - 1)

find_crlf(b) == do_find_crlf(b, b.read_index, b.write_index)

find_crlf_from(b, start) ==
    IF ~(b.read_index <= start) THEN Panic(b)
    ELSE IF ~(start <= b.write_index) THEN Panic(b)
    ELSE do_find_crlf(b, start, b.write_index)

RECURSIVE ScanEol(_, _, _)
\* The loop of do_find_eol from i on: for i in start..end.
ScanEol(b, i, last) ==
    IF ~(i < last) THEN Ok(b, None)
    ELSE IF ~InBounds(b.data, i) THEN Panic(b)
    ELSE IF b.data[i + 1] = LF THEN Ok(b, Some(i))
    ELSE ScanEol(b, i + 1, last)

do_find_eol(b, start, end) ==
    IF ~(start <= end) THEN Panic(b)
    ELSE ScanEol(b, start, end)

find_eol(b) == do_find_eol(b, b.read_index, b.write_index)

find_eol_from(b, start) ==
    IF ~(b.read_index <= start) THEN Panic(b)
    ELSE IF ~(start <= b.write_index) THEN Panic(b)
    ELSE do_find_eol(b, start, b.write_index)

(***************************************************************************)
(* Streams.  What stream.read(&mut bytes) returns is an io::Result: the    *)
(* error of the stream, or the bytes it has put at the head of `bytes`,     *)
(* whose count is the usize the code calls `received`.                      *)
(***************************************************************************)
IoOk(x) == [ok |-> TRUE, val |-> x]
IoErr(e) == [ok |-> FALSE, val |-> e]

\* A read_from that empties the buffer when the stream fails.
read_from_clearing_on_error(b, read) ==
    IF ~read.ok THEN Ok(retrieve_all(b).buf, IoErr(read.val))
    ELSE LET a == append_bytes(b, read.val)
         IN  IF a.outcome # "ok" THEN a ELSE Ok(a.buf, IoOk(Len(read.val)))

read_from(b, read) ==
    IF ~read.ok THEN Ok(b, IoErr(read.val))                          \* try!
    ELSE LET a == append_bytes(b, read.val)
         IN  IF a.outcome # "ok" THEN a ELSE Ok(a.buf, IoOk(Len(read.val)))

(***************************************************************************)
(* swap exchanges the three fields of two buffers.                          *)
(***************************************************************************)
swap(b, other) == [self |-> other, other |-> b]

(***************************************************************************)
(* shrink moves the readable bytes, as a string, into a new buffer of the   *)
(* default size and takes that buffer's fields.                             *)
(***************************************************************************)
\* A shrink whose new buffer starts with no writable bytes at all.
shrink_from_nothing(b, reserve) ==
    LET e == ensure_writable_bytes(new(Some(0)), readable_bytes(b) + reserve)
        t == retrieve_all_as_string(b)
        a == append_string(e.buf, t.ret)
    IN  IF e.outcome # "ok" THEN [e EXCEPT !.buf = b]
        ELSE IF t.outcome # "ok" THEN t
        ELSE IF a.outcome # "ok" THEN [a EXCEPT !.buf = t.buf]
        ELSE Ok(swap(t.buf, a.buf).self, Unit)

shrink(b, reserve) ==
    LET other == new(None)
        e == ensure_writable_bytes(other, readable_bytes(b) + reserve)
        t == retrieve_all_as_string(b)
        a == append_string(e.buf, t.ret)
    IN  IF e.outcome # "ok" THEN [e EXCEPT !.buf = b]
        ELSE IF t.outcome # "ok" THEN t
        ELSE IF a.outcome # "ok" THEN [a EXCEPT !.buf = t.buf]
        ELSE Ok(swap(t.buf, a.buf).self, Unit)

(***************************************************************************)
(* The state machine: a buffer is constructed, then called.  A call that    *)
(* does not return ends the run.                                            *)
(***************************************************************************)
Buf == Buffer(read_index, write_index, data)

\* The arguments the calls are made with.
Initials == {Some(sz) : sz \in 0..MaxInitial}
Lens == 0..MaxArg
Payloads == {<<>>, <<1>>, <<2, 3>>}
PrependPayloads == {<<>>, <<4>>, <<5, 6>>}
Others == {new(Some(sz)) : sz \in 0..MaxInitial}
Ends == {end \in {read_index - 1} \cup {read_index + d : d \in Lens} : end >= 0}
\* "", "h", "hi", "é", and "é" followed by "h"
Strings == {<<>>, <<104>>, <<104, 105>>, <<195, 169>>, <<195, 169, 104>>}
\* bytes that are not UTF-8: a stray 0xFF, and a lead byte without its
\* continuation
RawBytes == {<<255>>, <<195>>}
Widths == {8, 16, 32, 64}
MinI32 == (0 - 2147483647) - 1
IntValues(W) ==
    IF W = 8 THEN {0 - 128, 72}
    ELSE IF W = 16 THEN {0 - 2, 18516}
    ELSE IF W = 32 THEN {MinI32, 16909060}
    ELSE {I64(MinI32, 1), I64(16909060, 84281096)}

Init ==
    \E initial \in Initials :
        /\ read_index = new(initial).read_index
        /\ write_index = new(initial).write_index
        /\ data = new(initial).data
        /\ pre = new(initial)
        /\ call = [name |-> "new", arg |-> initial, ret |-> Unit, outcome |-> "ok"]
        /\ calls = 0

Running == call.outcome = "ok" /\ calls < MaxCalls

\* The call `name(arg)` is made on the buffer and ends as r says.
Apply(name, arg, r) ==
    /\ Running
    /\ pre' = Buf
    /\ read_index' = r.buf.read_index
    /\ write_index' = r.buf.write_index
    /\ data' = r.buf.data
    /\ call' = [name |-> name, arg |-> arg, ret |-> r.ret, outcome |-> r.outcome]
    /\ calls' = calls + 1

Swap(other) == Apply("swap", other, Ok(swap(Buf, other).self, Unit))
AppendBytes(bytes) == Apply("append_bytes", bytes, append_bytes(Buf, bytes))
PrependBytes(bytes) == Apply("prepend_bytes", bytes, prepend_bytes(Buf, bytes))
HasWritten(len) == Apply("has_written", len, has_written(Buf, len))
Unwrite(len) == Apply("unwrite", len, unwrite(Buf, len))
EnsureWritableBytes(len) ==
    Apply("ensure_writable_bytes", len, ensure_writable_bytes(Buf, len))
MakeSpace(len) == Apply("make_space", len, make_space(Buf, len))
Retrieve(len) == Apply("retrieve", len, retrieve(Buf, len))
RetrieveAll == Apply("retrieve_all", Unit, retrieve_all(Buf))
RetrieveUntil(end) == Apply("retrieve_until", end, retrieve_until(Buf, end))
AppendString(str) == Apply("append_string", str, append_string(Buf, str))
RetrieveAsString(len) ==
    Apply("retrieve_as_string", len, retrieve_as_string(Buf, len))
RetrieveAllAsString ==
    Apply("retrieve_all_as_string", Unit, retrieve_all_as_string(Buf))
AppendInt(W, x, le) == Apply("append_int", <<W, x>>, append_int(Buf, W, x, le))
PeekInt(W, le) == Apply("peek_int", <<W>>, peek_int(Buf, W, le))
ReadInt(W, le) == Apply("read_int", <<W>>, read_int(Buf, W, le))

\* The operations on the layout of the buffer.
Next ==
    \/ \E other \in Others : Swap(other)
    \/ \E bytes \in Payloads : AppendBytes(bytes)
    \/ \E bytes \in PrependPayloads : PrependBytes(bytes)
    \/ \E len \in Lens : HasWritten(len)
    \/ \E len \in Lens : Unwrite(len)
    \/ \E len \in Lens : EnsureWritableBytes(len)
    \/ \E len \in Lens : MakeSpace(len)
    \/ \E len \in Lens : Retrieve(len)
    \/ RetrieveAll
    \/ \E end \in Ends : RetrieveUntil(end)

Spec == Init /\ [][Next]_vars

\* Text in and out of the buffer.
NextText ==
    \/ \E str \in Strings : AppendString(str)
    \/ \E bytes \in RawBytes : AppendBytes(bytes)
    \/ \E len \in Lens : RetrieveAsString(len)
    \/ RetrieveAllAsString
    \/ \E len \in Lens : Retrieve(len)

SpecText == Init /\ [][NextText]_vars

\* Integers in and out of the buffer.
\* The values that are appended: the negative ones of the narrow widths,
\* both of the wide ones.
Appended(W) == IF W <= 16 THEN {x \in IntValues(W) : x < 0} ELSE IntValues(W)

NextInt ==
    \/ \E W \in Widths, le \in BOOLEAN : \E x \in Appended(W) : AppendInt(W, x, le)
    \/ \E W \in Widths, le \in BOOLEAN : PeekInt(W, le)
    \/ \E W \in Widths, le \in BOOLEAN : ReadInt(W, le)

SpecInt == Init /\ [][NextInt]_vars

\* What a stream's read gives: an error, the end of the stream, or bytes.
Reads == {IoErr("broken pipe"), IoOk(<<>>), IoOk(<<7>>), IoOk(<<8, 9>>)}

ReadFrom(read) == Apply("read_from", read, read_from(Buf, read))

\* Bytes read from a stream into the buffer, and consumed.
NextStream ==
    \/ \E read \in Reads : ReadFrom(read)
    \/ \E len \in Lens : Retrieve(len)
    \/ \E len \in Lens : Unwrite(len)
    \/ \E bytes \in PrependPayloads : PrependBytes(bytes)

SpecStream == Init /\ [][NextStream]_vars

FindCrlf == Apply("find_crlf", Unit, find_crlf(Buf))
FindCrlfFrom(start) == Apply("find_crlf_from", start, find_crlf_from(Buf, start))
FindEol == Apply("find_eol", Unit, find_eol(Buf))
FindEolFrom(start) == Apply("find_eol_from", start, find_eol_from(Buf, start))

\* More bytes than a new buffer has room for in front.
Oversize == {Zeros(PREPEND + 1)}

\* Calls made within and outside their preconditions.
NextMisuse ==
    \/ \E bytes \in Payloads : AppendBytes(bytes)
    \/ \E bytes \in PrependPayloads \cup Oversize : PrependBytes(bytes)
    \/ \E W \in Widths, le \in BOOLEAN : PeekInt(W, le)
    \/ \E W \in Widths, le \in BOOLEAN : ReadInt(W, le)
    \/ \E len \in Lens : Retrieve(len)
    \/ \E len \in Lens : RetrieveAsString(len)
    \/ \E len \in Lens : Unwrite(len)
    \/ \E len \in Lens : HasWritten(len)
    \/ \E end \in Ends : RetrieveUntil(end)
    \/ \E start \in Ends : FindCrlfFrom(start)
    \/ \E start \in Ends : FindEolFrom(start)

SpecMisuse == Init /\ [][NextMisuse]_vars

\* The spare room shrink is asked for: none, a little, and more than a new
\* buffer has.
Reserves == {0, MaxArg, INITIAL + 1}

Shrink(reserve) == Apply("shrink", reserve, shrink(Buf, reserve))

\* Text appended, consumed, and the buffer shrunk.
\* Contents to shrink: a one-byte and a two-byte character
ShrinkStrings == {<<104>>, <<195, 169>>}

NextShrink ==
    \/ \E str \in ShrinkStrings : AppendString(str)
    \/ \E bytes \in RawBytes : AppendBytes(bytes)
    \/ \E len \in Lens : Retrieve(len)
    \/ \E reserve \in Reserves : Shrink(reserve)

SpecShrink == Init /\ [][NextShrink]_vars

\* Line ends and other bytes to append, and to put in front: the second
\* fills the whole margin of a new buffer.
LinePayloads == {<<CR>>, <<LF>>, <<CR, LF>>, <<120>>}
FrontPayloads == {<<LF>>, <<CR, LF, 120, 120, 120, 120, 120, 120>>}

\* Lines appended, prepended, taken back, consumed and searched.
NextFind ==
    \/ \E bytes \in LinePayloads : AppendBytes(bytes)
    \/ \E bytes \in FrontPayloads : PrependBytes(bytes)
    \/ \E len \in Lens \cup {PREPEND} : Unwrite(len)
    \/ \E len \in Lens : Retrieve(len)
    \/ FindCrlf
    \/ FindEol

SpecFind == Init /\ [][NextFind]_vars

\* The layout the code documents for Buffer.
StructInv(b) ==
    /\ 0 <= b.read_index
    /\ b.read_index <= b.write_index
    /\ b.write_index <= Len(b.data)

\* The readable bytes of b, the oldest first.
Readable(b) == Slice(b.data, b.read_index, readable_bytes(b))

(***************************************************************************)
(* The layout of the buffer.                                                *)
(***************************************************************************)

\* C1: after any sequence of calls of the public operations, each of which
\* returned, 0 <= read_index <= write_index <= data.len().
C1_StructInvariant == call.outcome = "ok" => StructInv(Buf)

\* C2: in every reachable state ensure_writable_bytes(n) returns, with
\* writable_bytes() >= n afterwards and with the readable bytes, their count
\* and their order as they were.
C2_EnsureWritable ==
    call.name = "ensure_writable_bytes" =>
        /\ call.outcome = "ok"
        /\ ~Underflow(Buf)
        /\ writable_bytes(Buf) >= call.arg
        /\ readable_bytes(Buf) = readable_bytes(pre)
        /\ Readable(Buf) = Readable(pre)

\* C3: in every reachable state append_bytes(B) with B not empty returns,
\* and the readable bytes are then those of before followed by B.
C3_AppendBytes ==
    call.name = "append_bytes" /\ Len(call.arg) > 0 =>
        /\ call.outcome = "ok"
        /\ ~Underflow(Buf)
        /\ readable_bytes(Buf) = readable_bytes(pre) + Len(call.arg)
        /\ Readable(Buf) = Readable(pre) \o call.arg

\* C4: an append of n bytes made when prependable_bytes() > PREPEND and
\* writable_bytes() < n <= writable_bytes() + prependable_bytes() - PREPEND
\* moves the readable bytes down instead of growing the storage: data.len()
\* is as before, read_index is PREPEND, and writable_bytes() is
\* data.len() - PREPEND - (the readable count of before + n).
C4_Compaction ==
    LET n == Len(call.arg)
    IN  /\ call.name = "append_bytes"
        /\ ~Underflow(pre)
        /\ prependable_bytes(pre) > PREPEND
        /\ writable_bytes(pre) < n
        /\ n <= writable_bytes(pre) + prependable_bytes(pre) - PREPEND
        => /\ call.outcome = "ok"
           /\ Len(data) = Len(pre.data)
           /\ read_index = PREPEND
           /\ ~Underflow(Buf)
           /\ writable_bytes(Buf) = Len(data) - PREPEND - (readable_bytes(pre) + n)

\* An append has compacted a buffer that held readable bytes.
C4_Compacted ==
    /\ call.name = "append_bytes"
    /\ call.outcome = "ok"
    /\ pre.read_index > PREPEND
    /\ readable_bytes(pre) > 0
    /\ writable_bytes(pre) < Len(call.arg)
    /\ read_index = PREPEND
    /\ Len(data) = Len(pre.data)

\* The n of a call that asks for n writable bytes.
Asked == IF call.name = "append_bytes" THEN Len(call.arg) ELSE call.arg

\* The buffer of before has fewer than n writable bytes, and its writable
\* and prependable bytes together are fewer than PREPEND + n.
MustGrow(n) ==
    /\ ~Underflow(pre)
    /\ writable_bytes(pre) < n
    /\ writable_bytes(pre) + prependable_bytes(pre) < PREPEND + n

\* C5: ensure_writable_bytes(n) called with writable_bytes() < n and
\* writable_bytes() + prependable_bytes() < PREPEND + n makes data.len()
\* the old write_index + n exactly and leaves both cursors alone; an append
\* of n bytes that takes this path ends with writable_bytes() == 0 and
\* prependable_bytes() as before.
C5_ExactGrowth ==
    /\ call.name = "ensure_writable_bytes" /\ MustGrow(Asked) =>
        /\ call.outcome = "ok"
        /\ Len(data) = pre.write_index + Asked
        /\ read_index = pre.read_index
        /\ write_index = pre.write_index
    /\ call.name = "append_bytes" /\ MustGrow(Asked) =>
        /\ call.outcome = "ok"
        /\ ~Underflow(Buf)
        /\ writable_bytes(Buf) = 0
        /\ prependable_bytes(Buf) = prependable_bytes(pre)

\* ensure_writable_bytes has grown the storage of a buffer that held
\* readable bytes.
C5_Grown ==
    /\ call.name = "ensure_writable_bytes"
    /\ call.outcome = "ok"
    /\ MustGrow(Asked)
    /\ readable_bytes(pre) > 0
    /\ Len(data) > Len(pre.data)

\* C6: retrieve(n) with n <= readable_bytes() returns; if n is less than
\* readable_bytes() then read_index is n more and write_index is as it
\* was; if n is readable_bytes() then both cursors are PREPEND, so that
\* readable_bytes() == 0, prependable_bytes() == PREPEND and
\* writable_bytes() == data.len() - PREPEND.
C6_Retrieve ==
    call.name = "retrieve" /\ call.arg <= readable_bytes(pre) =>
        /\ call.outcome = "ok"
        /\ IF call.arg < readable_bytes(pre)
           THEN /\ read_index = pre.read_index + call.arg
                /\ write_index = pre.write_index
           ELSE /\ read_index = PREPEND
                /\ write_index = PREPEND
                /\ readable_bytes(Buf) = 0
                /\ prependable_bytes(Buf) = PREPEND
                /\ ~Underflow(Buf)
                /\ writable_bytes(Buf) = Len(data) - PREPEND

\* C7: retrieve_all() leaves readable_bytes() == 0 and prependable_bytes()
\* == PREPEND whatever the buffer was, and a second retrieve_all() made at
\* once changes nothing.
C7_RetrieveAll ==
    call.name = "retrieve_all" =>
        /\ call.outcome = "ok"
        /\ readable_bytes(Buf) = 0
        /\ prependable_bytes(Buf) = PREPEND
        /\ retrieve_all(Buf) = Ok(Buf, Unit)

\* retrieve_all() has emptied a buffer whose cursors were elsewhere.
C7_Emptied ==
    /\ call.name = "retrieve_all"
    /\ readable_bytes(pre) > 0
    /\ pre.read_index # PREPEND
    /\ read_index = PREPEND
    /\ write_index = PREPEND

(***************************************************************************)
(* Text.                                                                    *)
(***************************************************************************)

\* C8: in every reachable state and for every string s, of L bytes, L = 0
\* included, append_string(s) returns, the retrieve_as_string(L) that
\* follows it at once returns s, and readable_bytes() is then what it was
\* before the append.
C8_StringRoundTrip ==
    call.name = "append_string" =>
        /\ call.outcome = "ok"
        /\ LET r == retrieve_as_string(Buf, Len(call.arg))
           IN  /\ r.outcome = "ok"
               /\ r.ret = call.arg
               /\ readable_bytes(r.buf) = readable_bytes(pre)

(***************************************************************************)
(* Integers.                                                                *)
(***************************************************************************)

\* C9: on a buffer with no readable bytes, for every width W and value v
\* of W bits, append_intW(v) returns, the read_intW() that follows it
\* returns v, and readable_bytes() is then 0.
C9_IntRoundTrip ==
    call.outcome = "ok" /\ readable_bytes(Buf) = 0 =>
        \A W \in Widths, le \in BOOLEAN : \A v \in IntValues(W) :
            LET a == append_int(Buf, W, v, le)
                r == read_int(a.buf, W, le)
            IN  /\ a.outcome = "ok"
                /\ r.outcome = "ok"
                /\ r.ret = v
                /\ readable_bytes(r.buf) = 0

RECURSIVE Weighted(_, _)
\* bytes[i] * 256^(k-i) + ... + bytes[k], k the length of bytes.
Weighted(bytes, i) ==
    IF i > Len(bytes) THEN 0
    ELSE bytes[i] * (256 ^ (Len(bytes) - i)) + Weighted(bytes, i + 1)

\* The two's complement value of at most 4 bytes, the most significant
\* first: the number they spell in base 256, less 256^k if its top bit is
\* set.
Signed(bytes) ==
    (IF bytes[1] >= 128 THEN bytes[1] - 256 ELSE bytes[1]) * (256 ^ (Len(bytes) - 1))
        + Weighted(bytes, 2)

\* The W-bit two's complement value of b0 * 256^(k-1) + ... + b(k-1).
BigEndian(bytes, W) ==
    IF W = 64
    THEN I64(Signed(SubSeq(bytes, 1, 4)), Signed(SubSeq(bytes, 5, 8)))
    ELSE Signed(bytes)

\* C10: with at least k = W/8 readable bytes b0, b1, ... at read_index,
\* peek_intW() returns the two's complement W-bit value of
\* b0 * 256^(k-1) + ... + b(k-1) and leaves the cursors and the storage as
\* they were; read_intW() returns what peek_intW() returns on the buffer
\* of before, and leaves the buffer as retrieve(k) does.
C10_BigEndianDecode ==
    LET W == call.arg[1]
        k == size_of(W)
    IN  call.name \in {"peek_int", "read_int"} /\ readable_bytes(pre) >= k =>
            /\ call.outcome = "ok"
            /\ call.ret = BigEndian(Slice(pre.data, pre.read_index, k), W)
            /\ call.name = "peek_int" => Buf = pre
            /\ call.name = "read_int" =>
                /\ \A le \in BOOLEAN : peek_int(pre, W, le) = Ok(pre, call.ret)
                /\ Buf = retrieve(pre, k).buf

\* read_int16() has decoded 0x0102, the upper half of the int32 0x01020304,
\* and the lower half is still to read.
C10_Decoded ==
    /\ call.name = "read_int"
    /\ call.outcome = "ok"
    /\ call.arg = <<16>>
    /\ call.ret = 258
    /\ readable_bytes(Buf) = 2
    /\ read_index = pre.read_index + 2

\* The n of a call that takes n bytes out as a string.
Taken ==
    IF call.name = "retrieve_all_as_string" THEN readable_bytes(pre) ELSE call.arg

\* C11: retrieve_as_string(n), or retrieve_all_as_string(), called with
\* n <= readable_bytes() on readable bytes whose first n are not UTF-8,
\* fails and leaves read_index, write_index and the readable bytes as they
\* were before the call.
C11_FailedDecodeAtomic ==
    /\ call.name \in {"retrieve_as_string", "retrieve_all_as_string"}
    /\ Taken <= readable_bytes(pre)
    /\ ~Utf8Valid(Slice(pre.data, pre.read_index, Taken), 1)
    => /\ call.outcome = "panic"
       /\ read_index = pre.read_index
       /\ write_index = pre.write_index
       /\ Readable(Buf) = Readable(pre)

(***************************************************************************)
(* Streams.                                                                 *)
(***************************************************************************)

\* C12: when the stream's read returns an error, read_from returns that
\* error, and read_index, write_index, data.len() and the readable bytes
\* are as before the call.
C12_FailedReadAtomic ==
    call.name = "read_from" /\ ~call.arg.ok =>
        /\ call.outcome = "ok"
        /\ call.ret = IoErr(call.arg.val)
        /\ read_index = pre.read_index
        /\ write_index = pre.write_index
        /\ Len(data) = Len(pre.data)
        /\ Readable(Buf) = Readable(pre)

\* read_from has returned the stream's error on a buffer that held readable
\* bytes away from its initial cursors.
C12_Failed ==
    /\ call.name = "read_from"
    /\ call.ret = IoErr("broken pipe")
    /\ readable_bytes(pre) > 0
    /\ pre.read_index # PREPEND

\* C13: in every reachable state, when the stream's read gives k bytes,
\* 0 <= k, read_from returns Ok(k), readable_bytes() is k more and the
\* readable bytes are those of before followed by the k bytes; for k = 0
\* the buffer is as before the call.
C13_SuccessfulRead ==
    call.name = "read_from" /\ call.arg.ok =>
        /\ call.outcome = "ok"
        /\ call.ret = IoOk(Len(call.arg.val))
        /\ readable_bytes(Buf) = readable_bytes(pre) + Len(call.arg.val)
        /\ Readable(Buf) = Readable(pre) \o call.arg.val
        /\ Len(call.arg.val) = 0 => Buf = pre

(***************************************************************************)
(* Prepending, and calls made outside their preconditions.                  *)
(***************************************************************************)

\* C14: prepend_bytes(B) with 1 <= len(B) <= prependable_bytes() returns;
\* read_index is len(B) less, write_index and data.len() are as before (so
\* is writable_bytes()), readable_bytes() is len(B) more, and the readable
\* bytes are B followed by those of before.
C14_PrependBytes ==
    /\ call.name = "prepend_bytes"
    /\ 1 <= Len(call.arg)
    /\ Len(call.arg) <= prependable_bytes(pre)
    => /\ call.outcome = "ok"
       /\ read_index = pre.read_index - Len(call.arg)
       /\ write_index = pre.write_index
       /\ Len(data) = Len(pre.data)
       /\ ~Underflow(Buf)
       /\ writable_bytes(Buf) = writable_bytes(pre)
       /\ readable_bytes(Buf) = readable_bytes(pre) + Len(call.arg)
       /\ Readable(Buf) = call.arg \o Readable(pre)

\* The call is made outside its precondition: a peek_intW or read_intW
\* with fewer than W/8 readable bytes; a retrieve, retrieve_as_string or
\* unwrite of more than readable_bytes(); a has_written of more than
\* writable_bytes(); a prepend_bytes of more than prependable_bytes(); a
\* retrieve_until, find_crlf_from or find_eol_from outside
\* [read_index, write_index].
Misused ==
    \/ /\ call.name \in {"peek_int", "read_int"}
       /\ readable_bytes(pre) < size_of(call.arg[1])
    \/ /\ call.name \in {"retrieve", "retrieve_as_string", "unwrite"}
       /\ call.arg > readable_bytes(pre)
    \/ /\ call.name = "has_written"
       /\ ~Underflow(pre)
       /\ call.arg > writable_bytes(pre)
    \/ /\ call.name = "prepend_bytes"
       /\ Len(call.arg) > prependable_bytes(pre)
    \/ /\ call.name \in {"retrieve_until", "find_crlf_from", "find_eol_from"}
       /\ (call.arg < pre.read_index \/ call.arg > pre.write_index)

\* C15: a call made outside its precondition ends in an assertion failure,
\* with read_index, write_index and the storage as before the call.
C15_MisuseAborts ==
    Misused =>
        /\ call.outcome = "panic"
        /\ read_index = pre.read_index
        /\ write_index = pre.write_index
        /\ data = pre.data

\* read_int has been refused on a buffer that holds some of the bytes it
\* needs, but not all.
C15_Refused ==
    /\ call.name = "read_int"
    /\ call.outcome = "panic"
    /\ 0 < readable_bytes(pre)
    /\ readable_bytes(pre) < size_of(call.arg[1])

(***************************************************************************)
(* shrink.                                                                  *)
(***************************************************************************)

Room == IF readable_bytes(pre) + call.arg > INITIAL
        THEN readable_bytes(pre) + call.arg
        ELSE INITIAL

C17_ShrinkPreserves ==
    call.name = "shrink" =>
        /\ call.outcome = "ok"
        /\ Readable(Buf) = Readable(pre)
        /\ prependable_bytes(Buf) = PREPEND
        /\ writable_bytes(Buf) >= call.arg

(***************************************************************************)
(* Searching.                                                               *)
(***************************************************************************)

\* The offsets i with read_index <= i and i + 1 < write_index at which b
\* holds CR and then LF.
CrlfAt(b) ==
    {i \in b.read_index..(b.write_index - 2) :
        b.data[i + 1] = CR /\ b.data[i + 2] = LF}

\* C18: in every reachable state, those with write_index == 0 included,
\* find_crlf() returns: no-match when no offset of the readable bytes holds
\* CR and then LF, the smallest such offset otherwise; the buffer is as
\* before the call.
C18_FindCrlf ==
    call.name = "find_crlf" =>
        /\ call.outcome = "ok"
        /\ Buf = pre
        /\ IF CrlfAt(pre) = {} THEN call.ret = None
           ELSE /\ call.ret # None
                /\ call.ret[1] \in CrlfAt(pre)
                /\ \A i \in CrlfAt(pre) : call.ret[1] <= i

(***************************************************************************)
(* The storage over a run.                                                  *)
(***************************************************************************)

\* C19: when ensure_writable_bytes(n), called by itself or by an append,
\* finds writable_bytes() < n and so calls make_space, the assertion
\* PREPEND < read_index does not fail, and where make_space compacts (the
\* storage keeps its length) read_index was more than PREPEND.
C19_CompactionGuarded ==
    /\ call.name \in {"ensure_writable_bytes", "append_bytes"}
    /\ ~Underflow(pre)
    /\ writable_bytes(pre) < Asked
    => /\ call.outcome = "ok"
       /\ make_space(pre, Asked).outcome = "ok"
       /\ Len(data) = Len(pre.data) => PREPEND < pre.read_index

\* ensure_writable_bytes has compacted the buffer.
C19_CompactedByEnsure ==
    /\ call.name = "ensure_writable_bytes"
    /\ call.outcome = "ok"
    /\ writable_bytes(pre) < call.arg
    /\ Len(data) = Len(pre.data)
    /\ pre.read_index > PREPEND
    /\ read_index = PREPEND

\* C20: no call other than shrink and swap makes data.len() less than it
\* was, or less than PREPEND.
C20_StorageNeverShrinks ==
    [][call'.name \notin {"shrink", "swap"} =>
            /\ Len(data') >= Len(data)
            /\ Len(data') >= PREPEND]_vars

====
